---- MODULE Spec2Model ----
(***************************************************************************)
(* food-cli (src/main.py): the four commands search, log, quick and today  *)
(* over the remote FoodData Central API and the local food_log.jsonl.      *)
(*                                                                         *)
(* Text is a sequence of tokens (a token stands for one or more            *)
(* characters), so that substring tests, prefix tests, JSON escaping and   *)
(* the splitting of the file into lines are computed, not assumed.         *)
(* Numbers are integers (integral floats).                                 *)
(***************************************************************************)
EXTENDS Integers, Sequences, FiniteSets, TLC

VARIABLES
    logFile,     \* content of LOG_FILE, a sequence of tokens
    fileExists,  \* LOG_FILE.exists()
    clock,       \* datetime.now(), in ticks
    cmd,         \* the command of the last invocation
    status,      \* its exit status
    out,         \* what it printed, in order
    events,      \* the remote calls and log accesses it made, in order
    failure,     \* the exception it raised, "none" if none
    results,     \* the search response it received (search, quick)
    food,        \* the detail record it extracted from (log, quick)
    summary,     \* calories, protein, carbs, fat after its extraction loop
    entry,       \* the entry log_food wrote
    report,      \* today: today_str, entries and totals
    prevLog,     \* content of LOG_FILE when the invocation started
    appends      \* number of entries appended so far

vars == <<logFile, fileExists, clock, cmd, status, out, events, failure, results,
          food, summary, entry, report, prevLog, appends>>

----------------------------------------------------------------------------
\* Bounds of the model

MaxClock == 1       \* the clock ticks at most this many times (a tick is a day)
MaxAppends == 1     \* entries appended by log and quick
MaxNutrients == 3   \* longest foodNutrients list of SpecExtract
MaxAmount == 8      \* largest nutrient amount the remote API reports

----------------------------------------------------------------------------
\* Text and dictionaries

QUOTE == "\""
BSLASH == "\\"
NL == "\n"

EmptyDict == [k \in {} |-> 0]

\* dict.get(k, default)
Get(d, k, default) == IF k \in DOMAIN d THEN d[k] ELSE default

\* Python's  sub in s  on strings
Contains(s, sub) ==
    \E i \in 1..(Len(s) - Len(sub) + 1) : SubSeq(s, i, i + Len(sub) - 1) = sub

\* str.startswith
StartsWith(s, prefix) ==
    Len(s) >= Len(prefix) /\ SubSeq(s, 1, Len(prefix)) = prefix

----------------------------------------------------------------------------
\* The clock: datetime.now()

\* date.isoformat()
DateIso(t) == <<"2026-11-0", ToString(t + 2)>>

\* datetime.isoformat()
DateTimeIso(t) == DateIso(t) \o <<"T12:00:00">>

----------------------------------------------------------------------------
\* json.dumps and json.loads on log entries

EntryKeys == <<"timestamp", "food", "serving", "calories", "protein_g",
               "carbs_g", "fat_g">>
TextKeys == {"timestamp", "food", "serving"}

MaxNumber == 2 * MaxAmount
Numbers == (-MaxNumber)..MaxNumber

NumberToken(n) == ToString(n)
NumberTokens == {NumberToken(n) : n \in Numbers}
TokenNumber(tok) == CHOOSE n \in Numbers : NumberToken(n) = tok

\* the escaping of a string that leaves a newline as it is
EscapeNoNewline(ch) ==
    IF ch = QUOTE THEN <<BSLASH, QUOTE>>
    ELSE IF ch = BSLASH THEN <<BSLASH, BSLASH>>
    ELSE <<ch>>

EscapeChar(ch) ==
    IF ch = QUOTE THEN <<BSLASH, QUOTE>>
    ELSE IF ch = BSLASH THEN <<BSLASH, BSLASH>>
    ELSE IF ch = NL THEN <<BSLASH, "n">>
    ELSE <<ch>>

RECURSIVE Escape(_)
Escape(s) == IF s = <<>> THEN <<>> ELSE EscapeChar(Head(s)) \o Escape(Tail(s))

DumpsString(s) == <<QUOTE>> \o Escape(s) \o <<QUOTE>>

DumpsValue(k, v) == IF k \in TextKeys THEN DumpsString(v) ELSE <<NumberToken(v)>>

RECURSIVE DumpsMembers(_, _)
DumpsMembers(e, i) ==
    IF i > Len(EntryKeys) THEN <<>>
    ELSE (IF i > 1 THEN <<", ">> ELSE <<>>)
         \o <<QUOTE, EntryKeys[i], QUOTE, ": ">> \o DumpsValue(EntryKeys[i], e[EntryKeys[i]])
         \o DumpsMembers(e, i + 1)

\* json.dumps(entry)
Dumps(e) == <<"{">> \o DumpsMembers(e, 1) \o <<"}">>

ParseError == [ok |-> FALSE]

\* the body of a JSON string from position i (after the opening quote)
RECURSIVE ScanString(_, _, _)
ScanString(t, i, acc) ==
    IF i > Len(t) THEN ParseError
    ELSE IF t[i] = QUOTE THEN [ok |-> TRUE, val |-> acc, next |-> i + 1]
    ELSE IF t[i] = NL THEN ParseError
    ELSE IF t[i] = BSLASH
         THEN IF i + 1 > Len(t) THEN ParseError
              ELSE IF t[i + 1] = QUOTE THEN ScanString(t, i + 2, Append(acc, QUOTE))
              ELSE IF t[i + 1] = BSLASH THEN ScanString(t, i + 2, Append(acc, BSLASH))
              ELSE IF t[i + 1] = "n" THEN ScanString(t, i + 2, Append(acc, NL))
              ELSE ParseError
    ELSE ScanString(t, i + 1, Append(acc, t[i]))

ParseValue(t, i) ==
    IF i > Len(t) THEN ParseError
    ELSE IF t[i] = QUOTE THEN ScanString(t, i + 1, <<>>)
    ELSE IF t[i] \in NumberTokens
         THEN [ok |-> TRUE, val |-> TokenNumber(t[i]), next |-> i + 1]
    ELSE ParseError

\* the members of a JSON object from position i (after "{" or ", ")
RECURSIVE ParseMembers(_, _, _)
ParseMembers(t, i, acc) ==
    IF i > Len(t) \/ t[i] # QUOTE THEN ParseError
    ELSE LET key == ScanString(t, i + 1, <<>>) IN
         IF ~key.ok \/ Len(key.val) # 1 THEN ParseError
         ELSE IF key.next > Len(t) \/ t[key.next] # ": " THEN ParseError
         ELSE LET v == ParseValue(t, key.next + 1) IN
              IF ~v.ok THEN ParseError
              ELSE LET d == (key.val[1] :> v.val) @@ acc IN
                   IF v.next > Len(t) THEN ParseError
                   ELSE IF t[v.next] = "}"
                        THEN [ok |-> TRUE, val |-> d, next |-> v.next + 1]
                   ELSE IF t[v.next] = ", " THEN ParseMembers(t, v.next + 1, d)
                   ELSE ParseError

\* str.strip of the trailing newline, as json.loads skips whitespace
StripNL(t) == IF t # <<>> /\ t[Len(t)] = NL THEN SubSeq(t, 1, Len(t) - 1) ELSE t

\* json.loads(line): [ok |-> FALSE] stands for JSONDecodeError
Loads(line) ==
    LET t == StripNL(line) IN
    IF t = <<>> \/ t[1] # "{" THEN ParseError
    ELSE LET r == ParseMembers(t, 2, EmptyDict) IN
         IF r.ok /\ r.next = Len(t) + 1 THEN [ok |-> TRUE, val |-> r.val]
         ELSE ParseError

\* for line in f: the file split after each newline; a last line without a
\* newline is a line too
LineEnds(content) ==
    {i \in 1..Len(content) : content[i] = NL \/ i = Len(content)}

FileLines(content) ==
    LET ends == LineEnds(content)
        End(k) == CHOOSE e \in ends : Cardinality({x \in ends : x < e}) = k - 1
    IN [k \in 1..Cardinality(ends) |->
           SubSeq(content, IF k = 1 THEN 1 ELSE End(k - 1) + 1, End(k))]

----------------------------------------------------------------------------
\* The remote API (external): what a request can come back with

EnergyName == <<"Energy">>
AtwaterName == <<"Energy", " (Atwater General Factors)">>
ProteinName == <<"Protein">>
CarbsName == <<"Carbohydrate, by difference">>
FatName == <<"Total lipid (fat)">>

\* a nutrient reading in the shape of the detail response
Reading(name, unit, amount) ==
    [nutrient |-> [name |-> name, unitName |-> unit], amount |-> amount]

ReadingNoAmount(name, unit) == [nutrient |-> [name |-> name, unitName |-> unit]]

\* the detail records of the remote database, by FDC ID
FoodDB ==
    <<[description |-> <<"6", QUOTE, " sub", BSLASH, NL, "n">>,
       servingSize |-> 50, servingUnit |-> <<"g">>,
       foodNutrients |-> <<Reading(EnergyName, <<"kJ">>, MaxAmount),
                           Reading(EnergyName, <<"kcal">>, 2),
                           Reading(ProteinName, <<"g">>, 1),
                           Reading(AtwaterName, <<"kcal">>, 3)>>],
      [foodNutrients |-> <<Reading(CarbsName, <<"g">>, 4),
                           Reading(FatName, <<"g">>, 1)>>]>>

\* the --servings values tried (1.0 is the default); nothing in the option's
\* declaration constrains its sign
Servings == {-1, 1, 2}

\* the ways a request ends: no API key, a transport error or an error
\* status, or a response with one of the bodies
Outcomes(bodies) ==
    {[key |-> FALSE, http |-> "error", body |-> EmptyDict],
     [key |-> TRUE, http |-> "error", body |-> EmptyDict]}
    \cup {[key |-> TRUE, http |-> "ok", body |-> b] : b \in bodies}

SearchBodies ==
    {EmptyDict, [foods |-> <<>>]}
    \cup {[foods |-> <<[fdcId |-> i]>>] : i \in DOMAIN FoodDB}

\* the body of a detail response is FoodDB's record of the ID asked for
DetailOutcomes == Outcomes({EmptyDict})

\* the search outcomes that differ for search, which reads no fdcId
SearchOutcomes ==
    Outcomes({EmptyDict, [foods |-> <<>>], [foods |-> <<[fdcId |-> 1]>>]})

IOOutcomes == {"ok", "error"}

Call(op, ok) == [op |-> op, ok |-> ok]

Raised(exc, calls, printed) ==
    [exc |-> exc, calls |-> calls, printed |-> printed, val |-> EmptyDict]

Returned(val, calls) ==
    [exc |-> "none", calls |-> calls, printed |-> <<>>, val |-> val]

\* get_api_key, as its callers see it: the key, or a message and Exit(1)
get_api_key(r) ==
    IF r.key THEN Returned(EmptyDict, <<>>)
    ELSE Raised("AuthFailure", <<>>, <<"no key">>)

\* the search asked twice (a second page)
search_food_twice(r) ==
    IF get_api_key(r).exc # "none" THEN get_api_key(r)
    ELSE IF r.http # "ok"
         THEN Raised("NetworkFailure", <<Call("GET search", FALSE)>>, <<>>)
    ELSE Returned(r.body, <<Call("GET search", TRUE), Call("GET search", TRUE)>>)

search_food(r) ==
    IF get_api_key(r).exc # "none" THEN get_api_key(r)
    ELSE IF r.http # "ok"
         THEN Raised("NetworkFailure", <<Call("GET search", FALSE)>>, <<>>)
    ELSE Returned(r.body, <<Call("GET search", TRUE)>>)

\* the detail fetch tried once more after a failure
get_food_details_retry(fdc_id, r) ==
    IF get_api_key(r).exc # "none" THEN get_api_key(r)
    ELSE IF r.http # "ok"
         THEN Raised("NetworkFailure",
                     <<Call("GET food", FALSE), Call("GET food", FALSE)>>, <<>>)
    ELSE Returned(FoodDB[fdc_id], <<Call("GET food", TRUE)>>)

get_food_details(fdc_id, r) ==
    IF get_api_key(r).exc # "none" THEN get_api_key(r)
    ELSE IF r.http # "ok"
         THEN Raised("NetworkFailure", <<Call("GET food", FALSE)>>, <<>>)
    ELSE Returned(FoodDB[fdc_id], <<Call("GET food", TRUE)>>)

----------------------------------------------------------------------------
\* log_food

\* the file opened with "w"
log_food_truncate(content, food_name, calories, protein, carbs, fat, serving, now, io) ==
    LET e == [timestamp |-> DateTimeIso(now), food |-> food_name,
              serving |-> serving, calories |-> calories, protein_g |-> protein,
              carbs_g |-> carbs, fat_g |-> fat]
    IN IF io # "ok"
       THEN [exc |-> "IOFailure", entry |-> e, content |-> content]
       ELSE [exc |-> "none", entry |-> e, content |-> Dumps(e) \o <<NL>>]

\* the entry built, and the file after  open(LOG_FILE, "a")  and the write;
\* an I/O failure is open() raising, which leaves the file as it was
log_food(content, food_name, calories, protein, carbs, fat, serving, now, io) ==
    LET e == [timestamp |-> DateTimeIso(now), food |-> food_name,
              serving |-> serving, calories |-> calories, protein_g |-> protein,
              carbs_g |-> carbs, fat_g |-> fat]
    IN IF io # "ok"
       THEN [exc |-> "IOFailure", entry |-> e, content |-> content]
       ELSE [exc |-> "none", entry |-> e, content |-> content \o Dumps(e) \o <<NL>>]

----------------------------------------------------------------------------
\* The nutrient loops of log and quick, and the scaling

ZeroSummary == [calories |-> 0, protein |-> 0, carbs |-> 0, fat |-> 0]

log_loop_body(s, nutrient) ==
    LET nutrient_name == Get(Get(nutrient, "nutrient", EmptyDict), "name", <<>>)
        unit == Get(Get(nutrient, "nutrient", EmptyDict), "unitName", <<>>)
        value == Get(nutrient, "amount", 0)
    IN IF Contains(nutrient_name, <<"Energy">>) /\ Contains(unit, <<"kcal">>)
       THEN [s EXCEPT !.calories = value]
       ELSE IF nutrient_name = <<"Protein">> THEN [s EXCEPT !.protein = value]
       ELSE IF nutrient_name = <<"Carbohydrate, by difference">>
            THEN [s EXCEPT !.carbs = value]
       ELSE IF nutrient_name = <<"Total lipid (fat)">> THEN [s EXCEPT !.fat = value]
       ELSE s

\* the loop stopped at the first match of each field (what a break per field
\* would do): the readings are taken last to first
RECURSIVE log_loop_first(_, _)
log_loop_first(s, nutrients) ==
    IF nutrients = <<>> THEN s
    ELSE log_loop_body(log_loop_first(s, Tail(nutrients)), Head(nutrients))

RECURSIVE log_loop(_, _)
log_loop(s, nutrients) ==
    IF nutrients = <<>> THEN s
    ELSE log_loop(log_loop_body(s, Head(nutrients)), Tail(nutrients))

quick_loop_body(s, nutrient) ==
    LET nutrient_name == Get(Get(nutrient, "nutrient", EmptyDict), "name", <<>>)
        unit == Get(Get(nutrient, "nutrient", EmptyDict), "unitName", <<>>)
        value == Get(nutrient, "amount", 0)
    IN IF Contains(nutrient_name, <<"Energy">>) /\ Contains(unit, <<"kcal">>)
       THEN [s EXCEPT !.calories = value]
       ELSE IF nutrient_name = <<"Protein">> THEN [s EXCEPT !.protein = value]
       ELSE IF nutrient_name = <<"Carbohydrate, by difference">>
            THEN [s EXCEPT !.carbs = value]
       ELSE IF nutrient_name = <<"Total lipid (fat)">> THEN [s EXCEPT !.fat = value]
       ELSE s

RECURSIVE quick_loop(_, _)
quick_loop(s, nutrients) ==
    IF nutrients = <<>> THEN s
    ELSE quick_loop(quick_loop_body(s, Head(nutrients)), Tail(nutrients))

DefaultServingSize == 100

\* f"{x:.1f}" of an integral x
FormatOneDecimal(x) == <<ToString(x), ".0">>

\* "Adjust for servings": the four products and serving_text
Scale(s, serving_size, serving_unit, servings) ==
    [calories |-> s.calories * servings, protein |-> s.protein * servings,
     carbs |-> s.carbs * servings, fat |-> s.fat * servings,
     serving_text |-> FormatOneDecimal(serving_size * servings) \o <<" ">>
                      \o serving_unit]

\* log, from the detail record to the call of log_food
log_locals(fd, servings) ==
    LET s == log_loop(ZeroSummary, Get(fd, "foodNutrients", <<>>))
    IN [name |-> Get(fd, "description", <<"Unknown food">>),
        summary |-> s,
        scaled |-> Scale(s, Get(fd, "servingSize", DefaultServingSize),
                         Get(fd, "servingUnit", <<"g">>), servings)]

\* quick, from the detail record to the call of log_food
quick_locals(fd, servings) ==
    LET s == quick_loop(ZeroSummary, Get(fd, "foodNutrients", <<>>))
    IN [name |-> Get(fd, "description", <<"Unknown food">>),
        summary |-> s,
        scaled |-> Scale(s, Get(fd, "servingSize", DefaultServingSize),
                         Get(fd, "servingUnit", <<"g">>), servings)]

----------------------------------------------------------------------------
\* today: the read loop and the totals

\* the read loop that skips a line json.loads rejects
RECURSIVE read_loop_skip(_, _, _, _)
read_loop_skip(lines, i, today_str, entries) ==
    IF i > Len(lines) THEN [exc |-> "none", entries |-> entries]
    ELSE LET e == Loads(lines[i]) IN
         IF ~e.ok THEN read_loop_skip(lines, i + 1, today_str, entries)
         ELSE IF "timestamp" \notin DOMAIN e.val
              THEN [exc |-> "KeyError", entries |-> <<>>]
         ELSE read_loop_skip(lines, i + 1, today_str,
                             IF StartsWith(e.val["timestamp"], today_str)
                             THEN Append(entries, e.val) ELSE entries)

\* for line in f: json.loads, startswith, append; an exception ends the loop
\* and leaves today
RECURSIVE read_loop(_, _, _, _)
read_loop(lines, i, today_str, entries) ==
    IF i > Len(lines) THEN [exc |-> "none", entries |-> entries]
    ELSE LET e == Loads(lines[i]) IN
         IF ~e.ok THEN [exc |-> "ParseFailure", entries |-> <<>>]
         ELSE IF "timestamp" \notin DOMAIN e.val
              THEN [exc |-> "KeyError", entries |-> <<>>]
         ELSE read_loop(lines, i + 1, today_str,
                        IF StartsWith(e.val["timestamp"], today_str)
                        THEN Append(entries, e.val) ELSE entries)

\* the totals with  =  written for  +=
RECURSIVE totals_loop_assign(_, _)
totals_loop_assign(t, entries) ==
    IF entries = <<>> THEN t
    ELSE totals_loop_assign([calories |-> Head(entries)["calories"],
                             protein |-> Head(entries)["protein_g"],
                             carbs |-> Head(entries)["carbs_g"],
                             fat |-> Head(entries)["fat_g"]], Tail(entries))

\* for entry in entries: total_cals += entry["calories"], ...
RECURSIVE totals_loop(_, _)
totals_loop(t, entries) ==
    IF entries = <<>> THEN t
    ELSE totals_loop([calories |-> t.calories + Head(entries)["calories"],
                      protein |-> t.protein + Head(entries)["protein_g"],
                      carbs |-> t.carbs + Head(entries)["carbs_g"],
                      fat |-> t.fat + Head(entries)["fat_g"]], Tail(entries))

----------------------------------------------------------------------------
\* The commands

NoResults == [none |-> TRUE]
NoFood == [none |-> TRUE]
NoEntry == [none |-> TRUE]
NoReport == [today_str |-> <<>>, entries |-> <<>>, totals |-> ZeroSummary]

\* what the invocation leaves behind, apart from the log file
Exit(c, code, printed, calls, exc, rs, fd, sm, en, rp) ==
    /\ cmd' = c
    /\ status' = code
    /\ out' = printed
    /\ events' = calls
    /\ failure' = exc
    /\ results' = rs
    /\ food' = fd
    /\ summary' = sm
    /\ entry' = en
    /\ report' = rp
    /\ prevLog' = logFile

\* the check of quick left out
quick_no_foods_never(rs) == FALSE

\* not results.get("foods")
search_no_foods(rs) == Get(rs, "foods", <<>>) = <<>>

quick_no_foods(rs) == Get(rs, "foods", <<>>) = <<>>

\* the search response as kept in  results : its foods, without their fields
Foods(rs) == [foods |-> Len(Get(rs, "foods", <<>>))]

Search(r) ==
    LET s == search_food(r) IN
    /\ IF s.exc # "none"
       THEN Exit("search", 1, s.printed \o <<"error">>, s.calls, s.exc,
                 NoResults, NoFood, ZeroSummary, NoEntry, NoReport)
       ELSE IF search_no_foods(s.val)
            THEN Exit("search", 0, <<"no foods found">>, s.calls, "none",
                      Foods(s.val), NoFood, ZeroSummary, NoEntry, NoReport)
       ELSE IF "foods" \notin DOMAIN s.val
            THEN Exit("search", 1, <<"error">>, s.calls, "KeyError",
                      Foods(s.val), NoFood, ZeroSummary, NoEntry, NoReport)
       ELSE Exit("search", 0, <<"table", "hint">>, s.calls, "none",
                 Foods(s.val), NoFood, ZeroSummary, NoEntry, NoReport)
    /\ UNCHANGED <<logFile, fileExists, clock, appends>>

Log(fdc_id, servings, r, io) ==
    LET d == get_food_details(fdc_id, r)
        l == log_locals(d.val, servings)
        w == log_food(logFile, l.name, l.scaled.calories, l.scaled.protein,
                      l.scaled.carbs, l.scaled.fat, l.scaled.serving_text,
                      clock, io)
    IN
    /\ appends < MaxAppends
    /\ IF d.exc # "none"
       THEN /\ Exit("log", 1, d.printed \o <<"error">>, d.calls, d.exc,
                    NoResults, NoFood, ZeroSummary, NoEntry, NoReport)
            /\ UNCHANGED <<logFile, fileExists, appends>>
       ELSE IF w.exc # "none"
            THEN /\ Exit("log", 1, <<"error">>,
                         d.calls \o <<Call("append", FALSE)>>, w.exc,
                         NoResults, NoFood, ZeroSummary, NoEntry, NoReport)
                 /\ UNCHANGED <<logFile, fileExists, appends>>
       ELSE /\ Exit("log", 0, <<"logged">>,
                    d.calls \o <<Call("append", TRUE)>>, "none",
                    NoResults, d.val, l.summary, w.entry, NoReport)
            /\ logFile' = w.content
            /\ fileExists' = TRUE
            /\ appends' = appends + 1
    /\ UNCHANGED clock

Quick(rs, servings, r, io) ==
    LET s == search_food(rs)
        foods == Get(s.val, "foods", <<>>)
        d == get_food_details(foods[1]["fdcId"], r)
        l == quick_locals(d.val, servings)
        w == log_food(logFile, l.name, l.scaled.calories, l.scaled.protein,
                      l.scaled.carbs, l.scaled.fat, l.scaled.serving_text,
                      clock, io)
    IN
    /\ appends < MaxAppends
    /\ IF s.exc # "none"
       THEN /\ Exit("quick", 1, s.printed \o <<"error">>, s.calls, s.exc,
                    NoResults, NoFood, ZeroSummary, NoEntry, NoReport)
            /\ UNCHANGED <<logFile, fileExists, appends>>
       ELSE IF quick_no_foods(s.val)
            THEN /\ Exit("quick", 0, <<"no foods found">>, s.calls, "none",
                         Foods(s.val), NoFood, ZeroSummary, NoEntry, NoReport)
                 /\ UNCHANGED <<logFile, fileExists, appends>>
       ELSE IF "foods" \notin DOMAIN s.val
            THEN /\ Exit("quick", 1, <<"error">>, s.calls, "KeyError",
                         Foods(s.val), NoFood, ZeroSummary, NoEntry, NoReport)
                 /\ UNCHANGED <<logFile, fileExists, appends>>
       ELSE IF foods = <<>>
            THEN /\ Exit("quick", 1, <<"error">>, s.calls, "IndexError",
                         Foods(s.val), NoFood, ZeroSummary, NoEntry, NoReport)
                 /\ UNCHANGED <<logFile, fileExists, appends>>
       ELSE IF d.exc # "none"
            THEN /\ Exit("quick", 1, <<"found">> \o d.printed \o <<"error">>,
                         s.calls \o d.calls, d.exc,
                         Foods(s.val), NoFood, ZeroSummary, NoEntry, NoReport)
                 /\ UNCHANGED <<logFile, fileExists, appends>>
       ELSE IF w.exc # "none"
            THEN /\ Exit("quick", 1, <<"found", "error">>,
                         s.calls \o d.calls \o <<Call("append", FALSE)>>, w.exc,
                         Foods(s.val), NoFood, ZeroSummary, NoEntry, NoReport)
                 /\ UNCHANGED <<logFile, fileExists, appends>>
       ELSE /\ Exit("quick", 0, <<"found", "logged">>,
                    s.calls \o d.calls \o <<Call("append", TRUE)>>, "none",
                    Foods(s.val), d.val, l.summary, w.entry, NoReport)
            /\ logFile' = w.content
            /\ fileExists' = TRUE
            /\ appends' = appends + 1
    /\ UNCHANGED clock

\* today has no try: an exception leaves it uncaught, and the interpreter
\* prints the traceback and exits with status 1
Today(io) ==
    LET today_str == DateIso(clock)
        rd == read_loop(FileLines(logFile), 1, today_str, <<>>)
    IN
    /\ IF ~fileExists
       THEN Exit("today", 0, <<"no foods logged yet">>, <<>>, "none",
                 NoResults, NoFood, ZeroSummary, NoEntry, NoReport)
       ELSE IF io # "ok"
            THEN Exit("today", 1, <<"traceback">>, <<Call("read", FALSE)>>,
                      "IOFailure", NoResults, NoFood, ZeroSummary, NoEntry,
                      NoReport)
       ELSE IF rd.exc # "none"
            THEN Exit("today", 1, <<"traceback">>, <<Call("read", FALSE)>>,
                      rd.exc, NoResults, NoFood, ZeroSummary, NoEntry, NoReport)
       ELSE IF rd.entries = <<>>
            THEN Exit("today", 0, <<"no foods logged today">>,
                      <<Call("read", TRUE)>>, "none", NoResults, NoFood,
                      ZeroSummary, NoEntry,
                      [today_str |-> today_str, entries |-> <<>>,
                       totals |-> ZeroSummary])
       ELSE Exit("today", 0, <<"table">>, <<Call("read", TRUE)>>, "none",
                 NoResults, NoFood, ZeroSummary, NoEntry,
                 [today_str |-> today_str, entries |-> rd.entries,
                  totals |-> totals_loop(ZeroSummary, rd.entries)])
    /\ UNCHANGED <<logFile, fileExists, clock, appends>>

\* time passes between invocations
Tick ==
    /\ clock < MaxClock
    /\ clock' = clock + 1
    /\ UNCHANGED <<logFile, fileExists, cmd, status, out, events, failure,
                   results, food, summary, entry, report, prevLog, appends>>

----------------------------------------------------------------------------
\* The log file found at start: absent, empty, or holding lines written
\* earlier (yesterday and today), followed or not by a line damaged outside
\* the program. Every line ends with its newline, as log_food writes it.

OldEntry(t) ==
    [timestamp |-> DateTimeIso(t), food |-> <<"toast">>,
     serving |-> <<"30", ".0", " ", "g">>, calories |-> 5, protein_g |-> 1,
     carbs_g |-> 2, fat_g |-> 1]

OldLine(t) == Dumps(OldEntry(t)) \o <<NL>>
DamagedLine == <<"{", QUOTE, "timestamp", NL>>

InitLogs ==
    {<<>>, OldLine(-1) \o OldLine(0), OldLine(-1) \o OldLine(0) \o DamagedLine}

Init ==
    /\ \/ fileExists = FALSE /\ logFile = <<>>
       \/ fileExists = TRUE /\ logFile \in InitLogs
    /\ clock = 0
    /\ cmd = "none"
    /\ status = 0
    /\ out = <<>>
    /\ events = <<>>
    /\ failure = "none"
    /\ results = NoResults
    /\ food = NoFood
    /\ summary = ZeroSummary
    /\ entry = NoEntry
    /\ report = NoReport
    /\ prevLog = logFile
    /\ appends = 0

\* the inputs of log and quick: an input the outcome cannot depend on (the
\* ID and the servings of a failed fetch, the servings of a failed append)
\* takes one value; the API key that quick's search found is there for its
\* detail fetch
LogInputs ==
    {<<1, 1, r, "ok">> : r \in {x \in DetailOutcomes : x.http # "ok"}}
    \cup {<<1, 1, r, "error">> : r \in {x \in DetailOutcomes : x.http = "ok"}}
    \cup {<<i, sv, r, "ok">> : i \in DOMAIN FoodDB, sv \in Servings,
                               r \in {x \in DetailOutcomes : x.http = "ok"}}

QuickInputs ==
    {<<rs, in[2], in[3], in[4]>> :
        rs \in {x \in Outcomes(SearchBodies) : Get(x.body, "foods", <<>>) # <<>>},
        in \in {x \in LogInputs : x[1] = 1 /\ x[3].key}}
    \cup {<<rs, 1, r, "ok">> :
            rs \in {x \in SearchOutcomes : Get(x.body, "foods", <<>>) = <<>>},
            r \in {x \in DetailOutcomes : x.http = "ok"}}

Next ==
    \/ \E r \in SearchOutcomes : Search(r)
    \/ \E in \in LogInputs : Log(in[1], in[2], in[3], in[4])
    \/ \E in \in QuickInputs : Quick(in[1], in[2], in[3], in[4])
    \/ \E io \in IOOutcomes : Today(io)
    \/ Tick

Spec == Init /\ [][Next]_vars

----------------------------------------------------------------------------
\* The extraction step alone, on every foodNutrients list of up to
\* MaxNutrients readings

Readings ==
    {Reading(EnergyName, <<"kcal">>, 2), Reading(AtwaterName, <<"kcal">>, 3),
     Reading(EnergyName, <<"kJ">>, MaxAmount), Reading(ProteinName, <<"g">>, 1),
     ReadingNoAmount(ProteinName, <<"g">>), Reading(CarbsName, <<"g">>, 4),
     Reading(CarbsName, <<"g">>, 5), Reading(FatName, <<"g">>, 6),
     Reading(FatName, <<"g">>, 7)}

NutrientLists == UNION {[1..n -> Readings] : n \in 0..MaxNutrients}

InitExtract ==
    /\ food \in {EmptyDict} \cup {[foodNutrients |-> ns] : ns \in NutrientLists}
    /\ fileExists = FALSE
    /\ logFile = <<>>
    /\ clock = 0
    /\ cmd = "none"
    /\ status = 0
    /\ out = <<>>
    /\ events = <<>>
    /\ failure = "none"
    /\ results = NoResults
    /\ summary = ZeroSummary
    /\ entry = NoEntry
    /\ report = NoReport
    /\ prevLog = <<>>
    /\ appends = 0

ExtractLog ==
    /\ cmd = "none"
    /\ cmd' = "log"
    /\ summary' = log_locals(food, 1).summary
    /\ UNCHANGED <<logFile, fileExists, clock, status, out, events, failure,
                   results, food, entry, report, prevLog, appends>>

ExtractQuick ==
    /\ cmd = "none"
    /\ cmd' = "quick"
    /\ summary' = quick_locals(food, 1).summary
    /\ UNCHANGED <<logFile, fileExists, clock, status, out, events, failure,
                   results, food, entry, report, prevLog, appends>>

NextExtract == ExtractLog \/ ExtractQuick

SpecExtract == InitExtract /\ [][NextExtract]_vars

----------------------------------------------------------------------------
\* Properties

Fields == {"calories", "protein", "carbs", "fat"}

\* the rule of a tracked field, on a reading
MatchesRule(f, n) ==
    LET name == Get(Get(n, "nutrient", EmptyDict), "name", <<>>)
        unit == Get(Get(n, "nutrient", EmptyDict), "unitName", <<>>)
    IN CASE f = "calories" -> Contains(name, EnergyName) /\ Contains(unit, <<"kcal">>)
         [] f = "protein" -> name = ProteinName
         [] f = "carbs" -> name = CarbsName
         [] f = "fat" -> name = FatName

Nutrients == Get(food, "foodNutrients", <<>>)
Matching(f) == {i \in 1..Len(Nutrients) : MatchesRule(f, Nutrients[i])}
FirstOf(S) == CHOOSE i \in S : \A j \in S : i <= j
LastOf(S) == CHOOSE i \in S : \A j \in S : j <= i
Amount(n) == Get(n, "amount", 0)
Extracted == cmd \in {"log", "quick"} /\ food # NoFood

C2_AppendOnly ==
    [][LET before == FileLines(logFile)
           after == FileLines(logFile')
       IN /\ Len(after) >= Len(before)
          /\ SubSeq(after, 1, Len(before)) = before
          /\ logFile' # logFile => Len(after) = Len(before) + 1
          /\ appends' # appends => Len(after) = Len(before) + 1]_vars

C2_Witness ==
    /\ cmd \in {"log", "quick"}
    /\ status = 0
    /\ Len(FileLines(prevLog)) >= 2
    /\ Len(FileLines(logFile)) = Len(FileLines(prevLog)) + 1

\* readAll: the read loop of today with no date to select by
ReadAll == read_loop(FileLines(logFile), 1, <<>>, <<>>)
LastLine == FileLines(logFile)[Len(FileLines(logFile))]
Appended ==
    /\ cmd \in {"log", "quick"}
    /\ events # <<>>
    /\ events[Len(events)] = Call("append", TRUE)

\* C3: after an append, the last line decodes to the appended entry, field
\* for field, and so does the last element of a read of the whole log
C3_RoundTrip ==
    Appended =>
        /\ Loads(LastLine) = [ok |-> TRUE, val |-> entry]
        /\ ReadAll.exc = "none" =>
               ReadAll.entries[Len(ReadAll.entries)] = entry

C3_Witness ==
    /\ Appended
    /\ ReadAll.exc = "none"
    /\ Len(ReadAll.entries) >= 2
    /\ \E i \in 1..Len(entry.food) : entry.food[i] = NL
    /\ \E i \in 1..Len(entry.food) : entry.food[i] = QUOTE
    /\ entry.calories # 0

\* the decoded lines whose timestamp starts with D, in log order
RECURSIVE RowsFor(_, _)
RowsFor(lines, D) ==
    IF lines = <<>> THEN <<>>
    ELSE LET e == Loads(Head(lines)).val IN
         (IF StartsWith(e.timestamp, D) THEN <<e>> ELSE <<>>)
         \o RowsFor(Tail(lines), D)

RECURSIVE SumOf(_, _)
SumOf(rows, k) == IF rows = <<>> THEN 0 ELSE Head(rows)[k] + SumOf(Tail(rows), k)

Reported == cmd = "today" /\ status = 0

\* C4: the daily report (today's date is the only date it is made for) holds
\* exactly the entries whose stored timestamp starts with the ISO date, in log
\* order, and its totals are the field-wise sums of those rows (no rows and
\* zero totals when there is none); a log that does not decode is C8's case
C4_DailyAggregation ==
    Reported =>
        /\ report.today_str \in {<<>>} \cup {DateIso(t) : t \in 0..clock}
        /\ report.entries = RowsFor(FileLines(logFile), report.today_str)
        /\ report.totals =
               [calories |-> SumOf(report.entries, "calories"),
                protein |-> SumOf(report.entries, "protein_g"),
                carbs |-> SumOf(report.entries, "carbs_g"),
                fat |-> SumOf(report.entries, "fat_g")]

C4_Witness ==
    /\ Reported
    /\ Len(report.entries) = 2
    /\ Len(FileLines(logFile)) = 3
    /\ report.entries[1].calories > 0
    /\ report.entries[2].calories > 0
    /\ report.entries[2].calories # report.totals.calories

\* C5 as stated: a failure of a remote call or of log I/O, a malformed log
\* line included, is reported by one error message of the command and ends
\* the invocation with a non-zero status
C5_FailuresCaught ==
    failure \in {"NetworkFailure", "IOFailure", "ParseFailure"} =>
        /\ status # 0
        /\ Len(SelectSeq(out, LAMBDA m : m = "error")) = 1
        /\ Len(SelectSeq(out, LAMBDA m : m = "traceback")) = 0

NetCalls == SelectSeq(events, LAMBDA c : c.op \in {"GET search", "GET food"})
LogAccesses == SelectSeq(events, LAMBDA c : c.op \in {"append", "read"})

\* C6 as stated: an invocation makes at most one network round trip and at
\* most one log append or one full log read
C6_OneRoundTrip == Len(NetCalls) <= 1 /\ Len(LogAccesses) <= 1

\* C6 amended: search and log make at most one network round trip and today
\* none; quick makes at most two, one search and then one detail fetch; every
\* invocation makes at most one log append or one full log read
C6_RoundTrips ==
    /\ Len(LogAccesses) <= 1
    /\ cmd \in {"search", "log"} => Len(NetCalls) <= 1
    /\ cmd \in {"none", "today"} => Len(NetCalls) = 0
    /\ cmd = "quick" =>
           \/ Len(NetCalls) <= 1
           \/ /\ Len(NetCalls) = 2
              /\ NetCalls[1].op = "GET search"
              /\ NetCalls[2].op = "GET food"

C6_Witness ==
    /\ cmd = "quick"
    /\ Len(NetCalls) = 2
    /\ LogAccesses = <<Call("append", TRUE)>>

\* C7 as stated: every persisted entry has non-negative calories, protein,
\* carbs and fat (the amounts of the remote API are non-negative)
C7_NonNegativeEntries ==
    \A i \in 1..Len(FileLines(logFile)) :
        LET e == Loads(FileLines(logFile)[i]) IN
        e.ok => /\ e.val.calories >= 0
                /\ e.val.protein_g >= 0
                /\ e.val.carbs_g >= 0
                /\ e.val.fat_g >= 0

Malformed(i) == ~Loads(FileLines(logFile)[i]).ok
WellFormedToday(i) ==
    /\ Loads(FileLines(logFile)[i]).ok
    /\ StartsWith(Loads(FileLines(logFile)[i]).val.timestamp, DateIso(clock))

\* C8: when a line of the log does not decode, today yields no rows and no
\* totals and ends uncaught, whatever well-formed entries surround the line
C8_AbortOnMalformed ==
    (cmd = "today" /\ \E i \in 1..Len(FileLines(logFile)) : Malformed(i)) =>
        /\ report = NoReport
        /\ out = <<"traceback">>
        /\ failure \in {"ParseFailure", "IOFailure"}
        /\ status = 1

C8_Witness ==
    /\ cmd = "today"
    /\ failure = "ParseFailure"
    /\ \E i, j, k \in 1..Len(FileLines(logFile)) :
          /\ i < j /\ j < k
          /\ WellFormedToday(i) /\ Malformed(j) /\ WellFormedToday(k)

EmptySearch == cmd \in {"search", "quick"} /\ results = [foods |-> 0]

\* C9: a search response with zero food items ends search and quick with
\* status 0 and a notice; quick then fetches no detail and leaves the log as
\* it was
C9_EmptySearchNotError ==
    EmptySearch =>
        /\ status = 0
        /\ failure = "none"
        /\ out = <<"no foods found">>
        /\ events = <<Call("GET search", TRUE)>>
        /\ logFile = prevLog

C9_Witness == EmptySearch /\ cmd = "quick" /\ prevLog # <<>> /\ status = 0

RemoteFailed == cmd \in {"log", "quick"} /\ failure = "NetworkFailure"

\* C10: when a remote call of log or quick fails, it is the last call of the
\* invocation and the only failed one, nothing is appended, the log is as it
\* was, and the invocation ends with the error message and status 1
C10_NoRetries ==
    RemoteFailed =>
        /\ \A i \in 1..Len(events) : ~events[i].ok => i = Len(events)
        /\ ~events[Len(events)].ok
        /\ LogAccesses = <<>>
        /\ logFile = prevLog
        /\ status = 1
        /\ out[Len(out)] = "error"

C10_Witness ==
    /\ RemoteFailed
    /\ cmd = "quick"
    /\ events = <<Call("GET search", TRUE), Call("GET food", FALSE)>>
    /\ prevLog # <<>>

====
